---- MODULE Spec2Model ----
(***************************************************************************)
(* Elelabs EZSP firmware utility (Elelabs_EzspFwUtility.py): the mode      *)
(* controller (probe, restart, flash, ele_update) with the EZSP and Spinel *)
(* init sequences it drives, run against a serial device whose replies are *)
(* unconstrained.  One run of the program executes one sub-command.        *)
(*                                                                         *)
(* Python values: None is the empty tuple, any other value v is <<v>>.     *)
(* An uncaught exception ends the run at pc = "raised".                    *)
(***************************************************************************)
EXTENDS Integers, Sequences, FiniteSets, TLC

\* ------------------------------------------------------------------------
\* Program constants

ZIGBEE == 0
THREAD == 1
BOOTLOADER == 2
ERROR == 3

INITIAL_EZSP_VERSION == 4
SERIAL_TIMEOUT == 3
BTL_BAUDRATE == 115200
SPINEL_RETRIES == 5
READY_BUDGET == 10
READY_SETTLE == 5

None == <<>>
Some(v) == <<v>>

\* --baudrate: argparse keeps the default as the integer 115200 and turns a
\* value given on the command line into a string (type=str).
BaudDefault == <<"int", BTL_BAUDRATE>>
Bauds == {BaudDefault, <<"str", BTL_BAUDRATE>>, <<"str", 57600>>}

\* ------------------------------------------------------------------------
\* What the device may answer (inputs of the model)

\* protocol versions a device reports to the version command
Versions == {4, 7, 8}
\* status bytes of getValue and launchStandaloneBootloader replies
MaxStatus == 1
StatusBytes == 0..MaxStatus
\* board names a device reports in its manufacturing token
BoardNames == {"ELU013", "ELR022", "ELU0143", "XYZ"}
\* the first line read after the carriage return: nothing, or a blank line
FirstLines == {<<>>, <<13, 10>>}

\* file names given to flash on the command line
FileNames ==
  { <<"f","w",".","g","b","l">>,
    <<"f","w",".","e","b","l">>,
    <<"f","w",".","g","b","l",".","b","a","k">>,
    <<"f","w",".","h","e","x">> }

\* ------------------------------------------------------------------------
\* State

VARIABLES
  args,             \* the parsed command line
  pc,               \* the statement about to run
  stack,            \* return labels of the active calls
  exc,              \* where the uncaught exception was raised
  nOpen,            \* serial sessions opened and not yet closed
  opened,           \* serial sessions opened so far
  baud,             \* baud rate of the session opened last
  wire,             \* what was written in the session opened last
  ezsp,             \* EzspProtocolInterface and its AshProtocolInterface
  spinel,           \* SpinelProtocolInterface and initSpinelProtocol's counter
  i_ret,            \* status returned by initEzspProtocol / initSpinelProtocol
  p_ezsp_status,    \* probe: ezsp_status
  p_spinel_status,  \* probe: spinel_status
  p_firmware_bound, \* probe: firmware_version has been assigned
  p_adapter_name,   \* probe: adapter_name
  p_first_line,     \* probe: first_line
  p_ret,            \* probe: the returned (status, name)
  probes,           \* the results the probes of this run returned, in order
  r_mode,           \* restart: mode
  r_adapter,        \* restart: (adapter_status, adapter_name)
  r_ret,            \* restart: the returned value
  f_filename,       \* flash: filename
  f_success,        \* flash: success
  f_elapsed,        \* flash: time.time() - start_time, in seconds
  f_sentcheck,      \* flash: sentcheck
  s_pc,             \* byte level: the statement of the session about to run
  s_tx,             \* byte level: the frame written last
  s_raw,            \* byte level: the bytes getResponse read
  s_resp,           \* byte level: what getResponse returned
  s_log,            \* byte level: the frames of the session, in order
  calc              \* a codec applied to an input, and its result

vars ==
  << args, pc, stack, exc, nOpen, opened, baud, wire, ezsp, spinel, i_ret,
     p_ezsp_status, p_spinel_status, p_firmware_bound, p_adapter_name,
     p_first_line, p_ret, probes, r_mode, r_adapter, r_ret,
     f_filename, f_success, f_elapsed, f_sentcheck,
     s_pc, s_tx, s_raw, s_resp, s_log, calc >>

byteVars == << s_pc, s_tx, s_raw, s_resp, s_log, calc >>
serialVars == << nOpen, opened, baud, wire >>
protoVars == << ezsp, spinel, i_ret >>
probeVars ==
  << p_ezsp_status, p_spinel_status, p_firmware_bound, p_adapter_name,
     p_first_line >>
probeOut == << p_ret, probes >>
restartVars == << r_mode, r_adapter, r_ret >>
flashVars == << f_filename, f_success, f_elapsed, f_sentcheck >>

\* ------------------------------------------------------------------------
\* Frames on the wire

AshRst == [kind |-> "ASH_RST", what |-> "RSTACK_FRAME_CMD"]
AshData(c) == [kind |-> "ASH_DATA", what |-> c]
AshAck == [kind |-> "ASH_ACK", what |-> "ack"]
SpinelPkt(c) == [kind |-> "SPINEL", what |-> c]
Btl(b) == [kind |-> "BTL", what |-> b]

\* ------------------------------------------------------------------------
\* Objects

NewEzsp ==
  [ezspVersion |-> INITIAL_EZSP_VERSION, sequenceNum |-> 0, ackNum |-> 0, frmNum |-> 0]

NewSpinel == [spinelVersion |-> None, counter |-> 0]

EzspAfterSend_FrmOnly(e) ==
  [e EXCEPT !.sequenceNum = (@ + 1) % 255,
            !.frmNum = (@ + 1) % 8]

EzspAfterSend_Mod256(e) ==
  [e EXCEPT !.sequenceNum = (@ + 1) % 256,
            !.ackNum = (@ + 1) % 8,
            !.frmNum = (@ + 1) % 8]

\* ezspFrameBuilder and ashFrameBuilder: one EZSP command built into one DATA frame
EzspAfterSend(e) ==
  [e EXCEPT !.sequenceNum = (@ + 1) % 255,
            !.ackNum = (@ + 1) % 8,
            !.frmNum = (@ + 1) % 8]

\* sendAshCommand: the DATA frame, and the ACK when a response was read
WireAfterEzsp(w, c, replied) ==
  w \o <<AshData(c)>> \o (IF replied THEN <<AshAck>> ELSE <<>>)

\* ------------------------------------------------------------------------
\* Calls, returns, exceptions

Call(entry, ret) ==
  /\ pc' = entry
  /\ stack' = <<ret>> \o stack

Return ==
  /\ pc' = Head(stack)
  /\ stack' = Tail(stack)

Raise ==
  /\ pc' = "raised"
  /\ exc' = pc
  /\ UNCHANGED stack

\* SerialInterface.open with a port that opens
OpenSession(b) ==
  /\ nOpen' = nOpen + 1
  /\ opened' = opened + 1
  /\ baud' = b
  /\ wire' = <<>>

\* the open sessions left by SerialInterface.close
AfterClose_Noop(n) == n
AfterClose(n) == n - 1

\* SerialInterface.close
CloseSession == nOpen' = AfterClose(nOpen)

\* ------------------------------------------------------------------------
\* Initial state: the command line

ArgSets ==
  [which : {"probe"}, mode : {"-"}, file : {<<>>}, version : {"-"}, baudrate : Bauds]
  \cup [which : {"restart"}, mode : {"btl", "nrml"}, file : {<<>>}, version : {"-"},
        baudrate : Bauds]
  \cup [which : {"flash"}, mode : {"-"}, file : FileNames, version : {"-"},
        baudrate : Bauds]
  \cup [which : {"ele_update"}, mode : {"-"}, file : {<<>>},
        version : {"zigbee", "thread"}, baudrate : Bauds]

NoResponse == [status |-> 0, msg |-> <<>>, parsed |-> <<>>]
NoCalc == [op |-> "none", bytes |-> <<>>, num |-> 0, coded |-> <<>>, status |-> 0, back |-> <<>>]

ByteLevelIdle ==
  /\ s_pc = "off"
  /\ s_tx = <<>>
  /\ s_raw = <<>>
  /\ s_resp = NoResponse
  /\ s_log = <<>>
  /\ calc = NoCalc

Init ==
  /\ ByteLevelIdle
  /\ args \in ArgSets
  /\ pc = "main"
  /\ stack = <<>>
  /\ exc = "-"
  /\ nOpen = 0
  /\ opened = 0
  /\ baud = BaudDefault
  /\ wire = <<>>
  /\ ezsp = NewEzsp
  /\ spinel = NewSpinel
  /\ i_ret = 0
  /\ p_ezsp_status = None
  /\ p_spinel_status = None
  /\ p_firmware_bound = FALSE
  /\ p_adapter_name = None
  /\ p_first_line = <<>>
  /\ p_ret = <<ERROR, None>>
  /\ probes = <<>>
  /\ r_mode = "-"
  /\ r_adapter = <<ERROR, None>>
  /\ r_ret = None
  /\ f_filename = <<>>
  /\ f_success = FALSE
  /\ f_elapsed = 0
  /\ f_sentcheck = None

\* ------------------------------------------------------------------------
\* Process entry

Main ==
  /\ pc = "main"
  /\ Call(args.which, "main_ret")
  /\ r_mode' = IF args.which = "restart" THEN args.mode ELSE r_mode
  /\ f_filename' = IF args.which = "flash" THEN args.file ELSE f_filename
  /\ UNCHANGED << byteVars, args, exc, serialVars, protoVars, probeVars, probeOut,
                  r_adapter, r_ret, f_success, f_elapsed, f_sentcheck >>

MainExit ==
  /\ pc = "main_ret"
  /\ pc' = "done"
  /\ UNCHANGED << byteVars, args, stack, exc, serialVars, protoVars, probeVars, probeOut,
                  restartVars, flashVars >>

\* ------------------------------------------------------------------------
\* EzspProtocolInterface.initEzspProtocol

\* what may come back after the reset frame: nothing, a frame that does not
\* hold RSTACK_FRAME_ACK, or one that does
ResetReplies == {"none", "other", "rstack"}

\* AshProtocolInterface.sendResetFrame: the status
sendResetFrame(reply) == IF reply = "rstack" THEN 0 ELSE -1

EzspInitReset ==
  /\ pc = "ezsp_init"
  /\ wire' = Append(wire, AshRst)
  /\ \E reply \in ResetReplies :
       IF sendResetFrame(reply) # 0
       THEN /\ i_ret' = sendResetFrame(reply)
            /\ Return
       ELSE /\ pc' = "ezsp_init_v4"
            /\ UNCHANGED << i_ret, stack >>
  /\ UNCHANGED << byteVars, args, exc, nOpen, opened, baud, ezsp, spinel, probeVars, probeOut,
                  restartVars, flashVars >>

\* sendVersion(INITIAL_EZSP_VERSION): no response raises in sendEzspCommand, a
\* response shorter than 4 bytes raises at resp[3]
EzspInitVersion ==
  /\ pc = "ezsp_init_v4"
  /\ \/ /\ ezsp' = EzspAfterSend(ezsp)
        /\ wire' = WireAfterEzsp(wire, "version", FALSE)
        /\ Raise
        /\ UNCHANGED i_ret
     \/ /\ ezsp' = EzspAfterSend(ezsp)
        /\ wire' = WireAfterEzsp(wire, "version", TRUE)
        /\ Raise
        /\ UNCHANGED i_ret
     \/ \E v \in Versions :
          /\ ezsp' = [EzspAfterSend(ezsp) EXCEPT !.ezspVersion = v]
          /\ wire' = WireAfterEzsp(wire, "version", TRUE)
          /\ IF v # INITIAL_EZSP_VERSION
             THEN /\ pc' = "ezsp_init_v2"
                  /\ UNCHANGED << i_ret, stack >>
             ELSE /\ i_ret' = 0
                  /\ Return
          /\ UNCHANGED exc
  /\ UNCHANGED << byteVars, args, nOpen, opened, baud, spinel, probeVars, probeOut,
                  restartVars, flashVars >>

\* sendVersion(self.ezspVersion), its result dropped
EzspInitVersionAgain ==
  /\ pc = "ezsp_init_v2"
  /\ ezsp' = EzspAfterSend(ezsp)
  /\ \/ /\ wire' = WireAfterEzsp(wire, "version", FALSE)
        /\ Raise
        /\ UNCHANGED i_ret
     \/ /\ wire' = WireAfterEzsp(wire, "version", TRUE)
        /\ Raise
        /\ UNCHANGED i_ret
     \/ /\ wire' = WireAfterEzsp(wire, "version", TRUE)
        /\ i_ret' = 0
        /\ Return
        /\ UNCHANGED exc
  /\ UNCHANGED << byteVars, args, nOpen, opened, baud, spinel, probeVars, probeOut,
                  restartVars, flashVars >>

\* ------------------------------------------------------------------------
\* SpinelProtocolInterface.initSpinelProtocol

\* what may come back after CMD_RESET: no valid packet, the request echoed by
\* the bootloader, or another packet
SpinelResetReplies == {"none", "echo", "packet"}

\* the status initSpinelProtocol returns right after the reset, None to go on
spinelResetStatus(reply) == IF reply = "packet" THEN None ELSE Some(-1)

SpinelInitReset ==
  /\ pc = "spinel_init"
  /\ wire' = Append(wire, SpinelPkt("CMD_RESET"))
  /\ \E reply \in SpinelResetReplies :
       IF spinelResetStatus(reply) # None
       THEN /\ i_ret' = spinelResetStatus(reply)[1]
            /\ spinel' = [spinel EXCEPT !.spinelVersion = None]
            /\ Return
       ELSE /\ spinel' = [spinelVersion |-> None, counter |-> 0]
            /\ pc' = "spinel_init_ver"
            /\ UNCHANGED << i_ret, stack >>
  /\ UNCHANGED << byteVars, args, exc, nOpen, opened, baud, ezsp, probeVars, probeOut,
                  restartVars, flashVars >>

\* what may come back to the version query: no valid packet, a packet shorter
\* than 5 bytes, one echoing another property, one echoing PROP_PROTOCOL_VERSION
SpinelVersionReplies == {"none", "short", "mismatch", "match"}

RetriesExhausted_OffByOne(counter) == counter > SPINEL_RETRIES

\* the test that ends the version loop after a mismatching reply
RetriesExhausted(counter) == counter >= SPINEL_RETRIES

\* one round of the version loop: no packet raises in sendSpinelCommand, a
\* short packet raises at response[2] .. response[4]
SpinelInitVersion ==
  /\ pc = "spinel_init_ver"
  /\ wire' = Append(wire, SpinelPkt("PROP_PROTOCOL_VERSION"))
  /\ \E reply \in SpinelVersionReplies :
       CASE reply \in {"none", "short"} ->
              /\ Raise
              /\ UNCHANGED << spinel, i_ret >>
         [] reply = "mismatch" ->
              /\ spinel' = [spinel EXCEPT !.counter = @ + 1]
              /\ IF RetriesExhausted(spinel.counter + 1)
                 THEN /\ i_ret' = -1
                      /\ Return
                 ELSE UNCHANGED << pc, stack, i_ret >>
              /\ UNCHANGED exc
         [] OTHER ->
              /\ spinel' = [spinel EXCEPT !.spinelVersion = Some("4.3")]
              /\ i_ret' = 0
              /\ Return
              /\ UNCHANGED exc
  /\ UNCHANGED << byteVars, args, nOpen, opened, baud, ezsp, probeVars, probeOut,
                  restartVars, flashVars >>

\* ------------------------------------------------------------------------
\* ElelabsUtilities.probe

\* return (status, name)
ProbeReturn(status, name) ==
  /\ p_ret' = <<status, name>>
  /\ probes' = Append(probes, <<status, name>>)
  /\ Return

\* open the port (it may fail to open), build the EZSP interface, call
\* initEzspProtocol
ProbeOpen ==
  /\ pc = "probe"
  /\ p_ezsp_status' = None
  /\ p_spinel_status' = None
  /\ p_firmware_bound' = FALSE
  /\ p_adapter_name' = None
  /\ p_first_line' = <<>>
  /\ \/ /\ Raise
        /\ UNCHANGED << serialVars, ezsp >>
     \/ /\ OpenSession(args.baudrate)
        /\ ezsp' = NewEzsp
        /\ Call("ezsp_init", "p_ezsp_ret")
        /\ UNCHANGED exc
  /\ UNCHANGED << byteVars, args, spinel, i_ret, probeOut, restartVars, flashVars >>

\* if ezsp_status == 0
EzspSucceeded_Never(status) == FALSE
EzspSucceeded(status) == status = 0

\* if ezsp_status == 0: ... else: build the Spinel interface, call
\* initSpinelProtocol
ProbeEzspStatus ==
  /\ pc = "p_ezsp_ret"
  /\ p_ezsp_status' = Some(i_ret)
  /\ IF EzspSucceeded(i_ret)
     THEN /\ pc' = "p_getvalue"
          /\ UNCHANGED << stack, spinel >>
     ELSE /\ spinel' = NewSpinel
          /\ Call("spinel_init", "p_spinel_ret")
  /\ UNCHANGED << byteVars, args, exc, serialVars, ezsp, i_ret, p_spinel_status,
                  p_firmware_bound, p_adapter_name, p_first_line, probeOut,
                  restartVars, flashVars >>

\* what may come back to getValue: nothing, a response too short for the
\* bytes read from it, or a response with a status byte
ProbeGetValue ==
  /\ pc = "p_getvalue"
  /\ ezsp' = EzspAfterSend(ezsp)
  /\ \/ /\ wire' = WireAfterEzsp(wire, "getValue", FALSE)
        /\ Raise
        /\ UNCHANGED p_firmware_bound
     \/ /\ wire' = WireAfterEzsp(wire, "getValue", TRUE)
        /\ Raise
        /\ UNCHANGED p_firmware_bound
     \/ \E status \in StatusBytes :
          /\ wire' = WireAfterEzsp(wire, "getValue", TRUE)
          /\ p_firmware_bound' = (status = 0)
          /\ pc' = "p_mfg_string"
          /\ UNCHANGED << stack, exc >>
  /\ UNCHANGED << byteVars, args, nOpen, opened, baud, spinel, i_ret, p_ezsp_status,
                  p_spinel_status, p_adapter_name, p_first_line, probeOut,
                  restartVars, flashVars >>

\* getMfgToken(EZSP_MFG_STRING) and the comparison with "Elelabs"
ProbeGetMfgString ==
  /\ pc = "p_mfg_string"
  /\ ezsp' = EzspAfterSend(ezsp)
  /\ \/ /\ wire' = WireAfterEzsp(wire, "getMfgToken", FALSE)
        /\ Raise
     \/ /\ wire' = WireAfterEzsp(wire, "getMfgToken", TRUE)
        /\ Raise
     \/ \E elelabs \in BOOLEAN :
          /\ wire' = WireAfterEzsp(wire, "getMfgToken", TRUE)
          /\ pc' = IF elelabs THEN "p_board_name" ELSE "p_zb_finish"
          /\ UNCHANGED << stack, exc >>
  /\ p_adapter_name' = None
  /\ UNCHANGED << byteVars, args, nOpen, opened, baud, spinel, i_ret, p_ezsp_status,
                  p_spinel_status, p_firmware_bound, p_first_line, probeOut,
                  restartVars, flashVars >>

\* getMfgToken(EZSP_MFG_BOARD_NAME)
ProbeGetBoardName ==
  /\ pc = "p_board_name"
  /\ ezsp' = EzspAfterSend(ezsp)
  /\ \/ /\ wire' = WireAfterEzsp(wire, "getMfgToken", FALSE)
        /\ Raise
        /\ UNCHANGED p_adapter_name
     \/ /\ wire' = WireAfterEzsp(wire, "getMfgToken", TRUE)
        /\ Raise
        /\ UNCHANGED p_adapter_name
     \/ \E name \in BoardNames :
          /\ wire' = WireAfterEzsp(wire, "getMfgToken", TRUE)
          /\ p_adapter_name' = Some(name)
          /\ pc' = "p_zb_finish"
          /\ UNCHANGED << stack, exc >>
  /\ UNCHANGED << byteVars, args, nOpen, opened, baud, spinel, i_ret, p_ezsp_status,
                  p_spinel_status, p_firmware_bound, p_first_line, probeOut,
                  restartVars, flashVars >>

\* logging firmware_version raises when getValue's status left it unassigned;
\* otherwise close and return ZIGBEE
ProbeZigbeeReturn ==
  /\ pc = "p_zb_finish"
  /\ IF ~p_firmware_bound
     THEN /\ Raise
          /\ UNCHANGED << nOpen, probeOut >>
     ELSE /\ CloseSession
          /\ ProbeReturn(ZIGBEE, p_adapter_name)
          /\ UNCHANGED exc
  /\ UNCHANGED << byteVars, args, opened, baud, wire, protoVars, probeVars, restartVars,
                  flashVars >>

\* if spinel_status == 0
SpinelSucceeded(status) == status = 0

\* if spinel_status == 0: ... else: the bootloader check
ProbeSpinelStatus ==
  /\ pc = "p_spinel_ret"
  /\ p_spinel_status' = Some(i_ret)
  /\ pc' = IF SpinelSucceeded(i_ret) THEN "p_ncp_version" ELSE "p_btl_reopen"
  /\ UNCHANGED << byteVars, args, stack, exc, serialVars, protoVars, p_ezsp_status,
                  p_firmware_bound, p_adapter_name, p_first_line, probeOut,
                  restartVars, flashVars >>

\* propValueGet(PROP_NCP_VERSION): no valid packet raises in sendSpinelCommand
ProbeNcpVersion ==
  /\ pc = "p_ncp_version"
  /\ wire' = Append(wire, SpinelPkt("PROP_NCP_VERSION"))
  /\ \/ /\ Raise
        /\ UNCHANGED p_firmware_bound
     \/ /\ p_firmware_bound' = TRUE
        /\ pc' = "p_vendor"
        /\ UNCHANGED << stack, exc >>
  /\ UNCHANGED << byteVars, args, nOpen, opened, baud, protoVars, p_ezsp_status,
                  p_spinel_status, p_adapter_name, p_first_line, probeOut,
                  restartVars, flashVars >>

\* propValueGet(PROP_MFG_STRING) and the comparison with "Elelabs"
ProbeVendor ==
  /\ pc = "p_vendor"
  /\ wire' = Append(wire, SpinelPkt("PROP_MFG_STRING"))
  /\ \/ Raise
     \/ \E elelabs \in BOOLEAN :
          /\ pc' = IF elelabs THEN "p_thread_board" ELSE "p_th_finish"
          /\ UNCHANGED << stack, exc >>
  /\ p_adapter_name' = None
  /\ UNCHANGED << byteVars, args, nOpen, opened, baud, protoVars, p_ezsp_status,
                  p_spinel_status, p_firmware_bound, p_first_line, probeOut,
                  restartVars, flashVars >>

\* propValueGet(PROP_MFG_BOARD_NAME)
ProbeThreadBoard ==
  /\ pc = "p_thread_board"
  /\ wire' = Append(wire, SpinelPkt("PROP_MFG_BOARD_NAME"))
  /\ \/ /\ Raise
        /\ UNCHANGED p_adapter_name
     \/ \E name \in BoardNames :
          /\ p_adapter_name' = Some(name)
          /\ pc' = "p_th_finish"
          /\ UNCHANGED << stack, exc >>
  /\ UNCHANGED << byteVars, args, nOpen, opened, baud, protoVars, p_ezsp_status,
                  p_spinel_status, p_firmware_bound, p_first_line, probeOut,
                  restartVars, flashVars >>

\* close and return THREAD
ProbeThreadReturn ==
  /\ pc = "p_th_finish"
  /\ CloseSession
  /\ ProbeReturn(THREAD, p_adapter_name)
  /\ UNCHANGED << byteVars, args, exc, opened, baud, wire, protoVars, probeVars, restartVars,
                  flashVars >>

\* if self.config.baudrate != 115200: close, open again at 115200 (the port
\* may fail to open)
ProbeBtlReopen ==
  /\ pc = "p_btl_reopen"
  /\ IF args.baudrate # BaudDefault
     THEN \/ /\ CloseSession
             /\ Raise
             /\ UNCHANGED << opened, baud, wire >>
          \/ /\ nOpen' = AfterClose(nOpen) + 1
             /\ opened' = opened + 1
             /\ baud' = BaudDefault
             /\ wire' = <<>>
             /\ pc' = "p_btl_cr"
             /\ UNCHANGED << stack, exc >>
     ELSE /\ pc' = "p_btl_cr"
          /\ UNCHANGED << stack, exc, serialVars >>
  /\ UNCHANGED << byteVars, args, protoVars, probeVars, probeOut, restartVars, flashVars >>

\* if len(first_line) == 0
IsTimeout_Inverted(line) == Len(line) # 0
IsTimeout(line) == Len(line) = 0

\* write 0x0D, read the first line; an empty line is ERROR
ProbeBtlCheck ==
  /\ pc = "p_btl_cr"
  /\ wire' = Append(wire, Btl("CR"))
  /\ \E line \in FirstLines :
       /\ p_first_line' = line
       /\ IF IsTimeout(line)
          THEN /\ CloseSession
               /\ ProbeReturn(ERROR, None)
          ELSE /\ pc' = "p_btl_info"
               /\ UNCHANGED << stack, nOpen, probeOut >>
  /\ UNCHANGED << byteVars, args, exc, opened, baud, protoVars, p_ezsp_status,
                  p_spinel_status, p_firmware_bound, p_adapter_name, restartVars,
                  flashVars >>

\* read the bootloader banner, close and return BOOTLOADER
ProbeBtlReturn ==
  /\ pc = "p_btl_info"
  /\ CloseSession
  /\ ProbeReturn(BOOTLOADER, None)
  /\ UNCHANGED << byteVars, args, exc, opened, baud, wire, protoVars, probeVars, restartVars,
                  flashVars >>

\* ------------------------------------------------------------------------
\* ElelabsUtilities.restart

IsNormal(status) == status = ZIGBEE \/ status = THREAD

\* adapter_status, adapter_name = self.probe()
RestartProbe ==
  /\ pc = "restart"
  /\ Call("probe", "r_probe_ret")
  /\ UNCHANGED << byteVars, args, exc, serialVars, protoVars, probeVars, probeOut,
                  restartVars, flashVars >>

\* the branches on adapter_status and mode; with ERROR no branch is taken and
\* the function ends without a return statement
RestartDispatch ==
  /\ pc = "r_probe_ret"
  /\ r_adapter' = p_ret
  /\ \/ /\ IsNormal(p_ret[1])
        /\ r_mode = "btl"
        /\ pc' = "r_btl_open"
        /\ UNCHANGED << stack, r_ret >>
     \/ /\ IsNormal(p_ret[1])
        /\ r_mode # "btl"
        /\ r_ret' = Some(0)
        /\ Return
     \/ /\ p_ret[1] = BOOTLOADER
        /\ r_mode = "btl"
        /\ r_ret' = Some(0)
        /\ Return
     \/ /\ p_ret[1] = BOOTLOADER
        /\ r_mode # "btl"
        /\ pc' = "r_nrml_reboot"
        /\ UNCHANGED << stack, r_ret >>
     \/ /\ ~IsNormal(p_ret[1])
        /\ p_ret[1] # BOOTLOADER
        /\ r_ret' = None
        /\ Return
  /\ UNCHANGED << byteVars, args, exc, serialVars, protoVars, probeVars, probeOut, r_mode,
                  flashVars >>

\* if adapter_name == None
NoBoardName_Never(name) == FALSE
NoBoardName(name) == name = None

\* open the port; ZIGBEE: call initEzspProtocol; THREAD: return -1 without a
\* board name, else call initSpinelProtocol
RestartBtlOpen ==
  /\ pc = "r_btl_open"
  /\ \/ /\ Raise
        /\ UNCHANGED << serialVars, ezsp, spinel, r_ret >>
     \/ /\ OpenSession(args.baudrate)
        /\ r_adapter[1] = ZIGBEE
        /\ ezsp' = NewEzsp
        /\ Call("ezsp_init", "r_ezsp_ret")
        /\ UNCHANGED << exc, spinel, r_ret >>
     \/ /\ OpenSession(args.baudrate)
        /\ r_adapter[1] # ZIGBEE
        /\ NoBoardName(r_adapter[2])
        /\ r_ret' = Some(-1)
        /\ Return
        /\ UNCHANGED << exc, ezsp, spinel >>
     \/ /\ OpenSession(args.baudrate)
        /\ r_adapter[1] # ZIGBEE
        /\ ~NoBoardName(r_adapter[2])
        /\ spinel' = NewSpinel
        /\ Call("spinel_init", "r_spinel_ret")
        /\ UNCHANGED << exc, ezsp, r_ret >>
  /\ UNCHANGED << byteVars, args, i_ret, probeVars, probeOut, r_mode, r_adapter, flashVars >>

\* ezsp_status is not looked at; launchStandaloneBootloader: no response
\* raises, a response shorter than 6 bytes raises at resp[5], a non-zero
\* status closes and returns -1
RestartLaunchEzsp ==
  /\ pc = "r_ezsp_ret"
  /\ ezsp' = EzspAfterSend(ezsp)
  /\ \/ /\ wire' = WireAfterEzsp(wire, "launchStandaloneBootloader", FALSE)
        /\ Raise
        /\ UNCHANGED << nOpen, r_ret >>
     \/ /\ wire' = WireAfterEzsp(wire, "launchStandaloneBootloader", TRUE)
        /\ Raise
        /\ UNCHANGED << nOpen, r_ret >>
     \/ \E status \in StatusBytes :
          /\ wire' = WireAfterEzsp(wire, "launchStandaloneBootloader", TRUE)
          /\ IF status # 0
             THEN /\ CloseSession
                  /\ r_ret' = Some(-1)
                  /\ Return
             ELSE /\ pc' = "r_btl_close"
                  /\ UNCHANGED << stack, nOpen, r_ret >>
          /\ UNCHANGED exc
  /\ UNCHANGED << byteVars, args, opened, baud, spinel, i_ret, probeVars, probeOut, r_mode,
                  r_adapter, flashVars >>

\* if spinel_status: close, return -1; else eleLaunchBtl, whose reply is dropped
RestartLaunchSpinel ==
  /\ pc = "r_spinel_ret"
  /\ IF i_ret # 0
     THEN /\ CloseSession
          /\ r_ret' = Some(-1)
          /\ Return
          /\ UNCHANGED wire
     ELSE /\ wire' = Append(wire, SpinelPkt("CMD_MFG_LAUNCH_BOOTLOADER"))
          /\ pc' = "r_btl_close"
          /\ UNCHANGED << stack, nOpen, r_ret >>
  /\ UNCHANGED << byteVars, args, exc, opened, baud, protoVars, probeVars, probeOut, r_mode,
                  r_adapter, flashVars >>

\* close, wait for the reboot, probe again
RestartBtlClose ==
  /\ pc = "r_btl_close"
  /\ CloseSession
  /\ Call("probe", "r_btl_probe_ret")
  /\ UNCHANGED << byteVars, args, exc, opened, baud, wire, protoVars, probeVars, probeOut,
                  restartVars, flashVars >>

\* return 0 if the device is now in the bootloader, else -1
RestartBtlResult ==
  /\ pc = "r_btl_probe_ret"
  /\ r_adapter' = p_ret
  /\ r_ret' = IF p_ret[1] = BOOTLOADER THEN Some(0) ELSE Some(-1)
  /\ Return
  /\ UNCHANGED << byteVars, args, exc, serialVars, protoVars, probeVars, probeOut, r_mode,
                  flashVars >>

\* open at 115200 (the port may fail to open)
RestartNrmlOpen ==
  /\ pc = "r_nrml_reboot"
  /\ \/ /\ Raise
        /\ UNCHANGED serialVars
     \/ /\ OpenSession(BaudDefault)
        /\ pc' = "r_nrml_write"
        /\ UNCHANGED << stack, exc >>
  /\ UNCHANGED << byteVars, args, protoVars, probeVars, probeOut, restartVars, flashVars >>

\* write '2', close, wait for the reboot, probe again
RestartNrmlReboot ==
  /\ pc = "r_nrml_write"
  /\ wire' = Append(wire, Btl("2"))
  /\ CloseSession
  /\ Call("probe", "r_nrml_probe_ret")
  /\ UNCHANGED << byteVars, args, exc, opened, baud, protoVars, probeVars, probeOut,
                  restartVars, flashVars >>

\* return 0 if the device is now in ZIGBEE or THREAD mode, else -1
RestartNrmlResult ==
  /\ pc = "r_nrml_probe_ret"
  /\ r_adapter' = p_ret
  /\ r_ret' = IF IsNormal(p_ret[1]) THEN Some(0) ELSE Some(-1)
  /\ Return
  /\ UNCHANGED << byteVars, args, exc, serialVars, protoVars, probeVars, probeOut, r_mode,
                  flashVars >>

\* ------------------------------------------------------------------------
\* ElelabsUtilities.flash

\* Python's "sub in s" on strings
Contains(sub, s) ==
  \E i \in 1..(Len(s) - Len(sub) + 1) : SubSeq(s, i, i + Len(sub) - 1) = sub

EXT_GBL == <<".", "g", "b", "l">>
EXT_EBL == <<".", "e", "b", "l">>

\* the file name test flash applies
AcceptedName(filename) == Contains(EXT_GBL, filename) \/ Contains(EXT_EBL, filename)

\* Python truth of restart's result: None and 0 are false
Truthy(v) == v # None /\ v[1] # 0

\* the file name test, then self.restart("btl")
FlashCheckName ==
  /\ pc = "flash"
  /\ IF ~AcceptedName(f_filename)
     THEN /\ Return
          /\ UNCHANGED r_mode
     ELSE /\ r_mode' = "btl"
          /\ Call("restart", "f_restart_ret")
  /\ UNCHANGED << byteVars, args, exc, serialVars, protoVars, probeVars, probeOut,
                  r_adapter, r_ret, flashVars >>

\* if self.restart("btl"): return
FlashRestartResult ==
  /\ pc = "f_restart_ret"
  /\ IF Truthy(r_ret)
     THEN Return
     ELSE /\ pc' = "f_open"
          /\ UNCHANGED stack
  /\ UNCHANGED << byteVars, args, exc, serialVars, protoVars, probeVars, probeOut,
                  restartVars, flashVars >>

\* open at 115200 (the port may fail to open), write 0x0A and '1', read two
\* lines, start the wait for 'C'
FlashOpen ==
  /\ pc = "f_open"
  /\ \/ /\ Raise
        /\ UNCHANGED << serialVars, f_success, f_elapsed >>
     \/ /\ nOpen' = nOpen + 1
        /\ opened' = opened + 1
        /\ baud' = BaudDefault
        /\ wire' = <<Btl("LF"), Btl("1")>>
        /\ f_success' = FALSE
        /\ f_elapsed' = 0
        /\ pc' = "f_wait_c"
        /\ UNCHANGED << stack, exc >>
  /\ UNCHANGED << byteVars, args, protoVars, probeVars, probeOut, restartVars, f_filename,
                  f_sentcheck >>

\* what one serial.read() may give: the byte 'C', another byte, or nothing
\* when the read times out
ReadResults == {"C", "other", "timeout"}

\* seconds one serial.read() may take: a byte may come at once, a timeout
\* takes the whole read timeout
ReadSeconds(result) == IF result = "timeout" THEN {SERIAL_TIMEOUT} ELSE 0..SERIAL_TIMEOUT

BreakReached_FirstC(result, elapsed) == result = "C"

\* if read() == b'C': ... if time.time()-start_time > 5: break
BreakReached(result, elapsed) == result = "C" /\ elapsed > READY_SETTLE

\* one round of: while time.time()-start_time < 10: read one byte
FlashWaitC ==
  /\ pc = "f_wait_c"
  /\ f_elapsed < READY_BUDGET
  /\ \E result \in ReadResults : \E dt \in ReadSeconds(result) :
       /\ f_elapsed' = f_elapsed + dt
       /\ f_success' = (f_success \/ result = "C")
       /\ pc' = IF BreakReached(result, f_elapsed + dt)
                THEN "f_wait_done" ELSE "f_wait_c"
  /\ UNCHANGED << byteVars, args, stack, exc, serialVars, protoVars, probeVars, probeOut,
                  restartVars, f_filename, f_sentcheck >>

\* the loop condition fails
FlashWaitExit ==
  /\ pc = "f_wait_c"
  /\ ~(f_elapsed < READY_BUDGET)
  /\ pc' = "f_wait_done"
  /\ UNCHANGED << byteVars, args, stack, exc, serialVars, protoVars, probeVars, probeOut,
                  restartVars, flashVars >>

\* if sentcheck
UploadComplete_Always(sent) == TRUE
UploadComplete(sent) == sent

\* if not success: return; open the file (ele_update's file may be missing),
\* XMODEM send; a failed send returns
FlashSend ==
  /\ pc = "f_wait_done"
  /\ \/ /\ ~f_success
        /\ Return
        /\ UNCHANGED << exc, wire, f_sentcheck >>
     \/ /\ f_success
        /\ args.which = "ele_update"
        /\ Raise
        /\ UNCHANGED << wire, f_sentcheck >>
     \/ /\ f_success
        /\ wire' = Append(wire, Btl("XMODEM"))
        /\ \E sent \in BOOLEAN :
             /\ f_sentcheck' = Some(sent)
             /\ IF UploadComplete(sent)
                THEN /\ pc' = "f_reboot"
                     /\ UNCHANGED stack
                ELSE Return
        /\ UNCHANGED exc
  /\ UNCHANGED << byteVars, args, nOpen, opened, baud, protoVars, probeVars, probeOut,
                  restartVars, f_filename, f_success, f_elapsed >>

\* wait, then write '2'
FlashReboot ==
  /\ pc = "f_reboot"
  /\ wire' = Append(wire, Btl("2"))
  /\ pc' = "f_close"
  /\ UNCHANGED << byteVars, args, stack, exc, nOpen, opened, baud, protoVars, probeVars,
                  probeOut, restartVars, flashVars >>

\* close, wait, probe
FlashClose ==
  /\ pc = "f_close"
  /\ CloseSession
  /\ Call("probe", "f_probe_ret")
  /\ UNCHANGED << byteVars, args, exc, opened, baud, wire, protoVars, probeVars, probeOut,
                  restartVars, flashVars >>

\* the probe's result is dropped
FlashReturn ==
  /\ pc = "f_probe_ret"
  /\ Return
  /\ UNCHANGED << byteVars, args, exc, serialVars, protoVars, probeVars, probeOut,
                  restartVars, flashVars >>

\* ------------------------------------------------------------------------
\* ElelabsUtilities.ele_update

MG13_THREAD ==
  <<"d","a","t","a","/","E","F","R","3","2","M","G","1","3","/","E","L","E","_","M","G","1","3","_","o","t","_","r","c","p","_","1","2","3","_","2","2","0","2","0","6",".","g","b","l">>
MG13_ZIGBEE ==
  <<"d","a","t","a","/","E","F","R","3","2","M","G","1","3","/","E","L","E","_","M","G","1","3","_","z","b","_","n","c","p","_","1","1","5","2","0","0","_","6","1","0","_","2","1","1","1","1","2",".","g","b","l">>
ELU0143_THREAD ==
  <<"d","a","t","a","/","E","F","R","3","2","M","G","2","1","/","E","L","U","0","1","4","3","_","M","G","2","1","_","o","t","_","r","c","p","_","1","2","3","_","2","2","0","1","3","1",".","g","b","l">>
ELU0143_ZIGBEE ==
  <<"d","a","t","a","/","E","F","R","3","2","M","G","2","1","/","E","L","U","0","1","4","3","_","M","G","2","1","_","z","b","_","n","c","p","_","6","1","0","3","_","2","2","0","1","3","1",".","g","b","l">>
ELU0141_THREAD ==
  <<"d","a","t","a","/","E","F","R","3","2","M","G","2","1","/","E","L","U","0","1","4","1","_","M","G","2","1","_","o","t","_","r","c","p","_","1","2","3","_","2","1","1","2","0","4",".","g","b","l">>
ELU0141_ZIGBEE ==
  <<"d","a","t","a","/","E","F","R","3","2","M","G","2","1","/","E","L","U","0","1","4","1","_","M","G","2","1","_","z","b","_","n","c","p","_","6","1","0","3","_","2","1","1","2","0","4",".","g","b","l">>

\* the image ele_update flashes for a board name and a protocol, None when it
\* flashes nothing
UpdateFile(name, version) ==
  CASE name \in {"ELR023", "ELU013"} ->
         IF version = "thread" THEN Some(MG13_THREAD)
         ELSE IF version = "zigbee" THEN Some(MG13_ZIGBEE) ELSE None
    [] name \in {"ELR022", "ELU012"} -> None
    [] name \in {"EZBPIS", "EZBUSBA"} -> None
    [] name = "ELU0143" ->
         IF version = "thread" THEN Some(ELU0143_THREAD)
         ELSE IF version = "zigbee" THEN Some(ELU0143_ZIGBEE) ELSE None
    [] name \in {"ELU0141", "ELU0142"} ->
         IF version = "thread" THEN Some(ELU0141_THREAD)
         ELSE IF version = "zigbee" THEN Some(ELU0141_ZIGBEE) ELSE None
    [] OTHER -> None

\* adapter_status, adapter_name = self.probe()
UpdateProbe ==
  /\ pc = "ele_update"
  /\ Call("probe", "u_probe_ret")
  /\ UNCHANGED << byteVars, args, exc, serialVars, protoVars, probeVars, probeOut,
                  restartVars, flashVars >>

\* flash the image of the board, or return
UpdateDispatch ==
  /\ pc = "u_probe_ret"
  /\ \/ /\ ~IsNormal(p_ret[1])
        /\ Return
        /\ UNCHANGED f_filename
     \/ /\ IsNormal(p_ret[1])
        /\ p_ret[2] = None
        /\ Return
        /\ UNCHANGED f_filename
     \/ /\ IsNormal(p_ret[1])
        /\ p_ret[2] # None
        /\ UpdateFile(p_ret[2][1], args.version) = None
        /\ Return
        /\ UNCHANGED f_filename
     \/ /\ IsNormal(p_ret[1])
        /\ p_ret[2] # None
        /\ UpdateFile(p_ret[2][1], args.version) # None
        /\ f_filename' = UpdateFile(p_ret[2][1], args.version)[1]
        /\ Call("flash", "u_flash_ret")
  /\ UNCHANGED << byteVars, args, exc, serialVars, protoVars, probeVars, probeOut,
                  restartVars, f_success, f_elapsed, f_sentcheck >>

\* flash's result is dropped
UpdateReturn ==
  /\ pc = "u_flash_ret"
  /\ Return
  /\ UNCHANGED << byteVars, args, exc, serialVars, protoVars, probeVars, probeOut,
                  restartVars, flashVars >>

\* ------------------------------------------------------------------------
\* Specification

Next ==
  \/ Main
  \/ MainExit
  \/ EzspInitReset
  \/ EzspInitVersion
  \/ EzspInitVersionAgain
  \/ SpinelInitReset
  \/ SpinelInitVersion
  \/ ProbeOpen
  \/ ProbeEzspStatus
  \/ ProbeGetValue
  \/ ProbeGetMfgString
  \/ ProbeGetBoardName
  \/ ProbeZigbeeReturn
  \/ ProbeSpinelStatus
  \/ ProbeNcpVersion
  \/ ProbeVendor
  \/ ProbeThreadBoard
  \/ ProbeThreadReturn
  \/ ProbeBtlReopen
  \/ ProbeBtlCheck
  \/ ProbeBtlReturn
  \/ RestartProbe
  \/ RestartDispatch
  \/ RestartBtlOpen
  \/ RestartLaunchEzsp
  \/ RestartLaunchSpinel
  \/ RestartBtlClose
  \/ RestartBtlResult
  \/ RestartNrmlOpen
  \/ RestartNrmlReboot
  \/ RestartNrmlResult
  \/ FlashCheckName
  \/ FlashRestartResult
  \/ FlashOpen
  \/ FlashWaitC
  \/ FlashWaitExit
  \/ FlashSend
  \/ FlashReboot
  \/ FlashClose
  \/ FlashReturn
  \/ UpdateProbe
  \/ UpdateDispatch
  \/ UpdateReturn

Spec == Init /\ [][Next]_vars

\* ------------------------------------------------------------------------
\* Where a run is

InitLabels == {"ezsp_init", "ezsp_init_v4", "ezsp_init_v2", "spinel_init", "spinel_init_ver"}

ProbeLabels ==
  {"probe", "p_ezsp_ret", "p_getvalue", "p_mfg_string", "p_board_name", "p_zb_finish",
   "p_spinel_ret", "p_ncp_version", "p_vendor", "p_thread_board", "p_th_finish",
   "p_btl_reopen", "p_btl_cr", "p_btl_info"}

\* the statement the run is at, or was at when it raised
At == IF pc = "raised" THEN exc ELSE pc

\* an init sequence called by probe is running
InProbeInit ==
  /\ At \in InitLabels
  /\ stack # <<>>
  /\ Head(stack) \in {"p_ezsp_ret", "p_spinel_ret"}

\* a probe is running
InProbe == At \in ProbeLabels \/ InProbeInit

\* probe has just returned to its caller
ProbeReturned ==
  \/ pc \in {"r_probe_ret", "r_btl_probe_ret", "r_nrml_probe_ret", "f_probe_ret",
             "u_probe_ret"}
  \/ pc = "main_ret" /\ args.which = "probe"

\* restart has just returned to its caller
RestartReturned ==
  \/ pc = "f_restart_ret"
  \/ pc = "main_ret" /\ args.which = "restart"

\* the probes that returned before restart was called
RBase == IF args.which = "ele_update" THEN 1 ELSE 0

Written(frame) == \E i \in 1..Len(wire) : wire[i] = frame

WrittenKind(kind) == \E i \in 1..Len(wire) : wire[i].kind = kind

\* ------------------------------------------------------------------------
\* Serial sessions

\* C1: every serial session opened by probe, restart or flash is closed
\* before the operation finishes: when the run has ended, by the last return
\* or by an exception (a command that got no reply), no session is open.
C1_SessionsClosedAtExit == pc \in {"done", "raised"} => nOpen = 0

\* C3: at no point are two serial sessions open at the same time.
C3_AtMostOneSession == nOpen <= 1

\* a later session of a run is open, the earlier ones closed
C3_Witness == opened >= 2 /\ nOpen = 1

\* ------------------------------------------------------------------------
\* flash

\* C2: flash writes the menu selection '1' (at 115200) only if the most
\* recent probe classified the device as Bootloader.
C2_UploadOnlyInBootloader ==
  Written(Btl("1")) =>
    /\ baud = BaudDefault
    /\ probes # <<>>
    /\ probes[Len(probes)][1] = BOOTLOADER

EndsWith(s, ext) ==
  /\ Len(s) >= Len(ext)
  /\ SubSeq(s, Len(s) - Len(ext) + 1, Len(s)) = ext

\* C7: flash rejects every file name that does not end in .gbl or .ebl
\* before it opens the serial port: in such a run no session is ever opened.
C7_BadNameRejected ==
  ( /\ args.which = "flash"
    /\ ~EndsWith(args.file, EXT_GBL)
    /\ ~EndsWith(args.file, EXT_EBL) )
  => opened = 0

\* C8: in flash the reboot byte '2' is written only after the XMODEM send
\* reported success, as the last byte of the upload session and while that
\* session is still open; after a failed send no '2' is written.
C8_RebootOnlyAfterUpload ==
  (args.which \in {"flash", "ele_update"} /\ Written(Btl("2"))) =>
    /\ f_sentcheck = Some(TRUE)
    /\ wire = <<Btl("LF"), Btl("1"), Btl("XMODEM"), Btl("2")>>
    /\ pc = "f_close" => nOpen = 1

\* the reboot byte has just been written
C8_Witness == pc = "f_close" /\ Written(Btl("2")) /\ f_sentcheck = Some(TRUE)

\* ------------------------------------------------------------------------
\* probe

\* C4: within one probe, once EZSP init has succeeded no Spinel packet and
\* no carriage return is written, and once Spinel init has succeeded no
\* carriage return is written.
C4_OneProtocolPerProbe ==
  InProbe =>
    /\ p_ezsp_status = Some(0) => ~WrittenKind("SPINEL") /\ ~Written(Btl("CR"))
    /\ p_spinel_status = Some(0) => ~Written(Btl("CR"))

\* a probe whose EZSP init succeeded has sent its three EZSP queries
C4_Witness ==
  /\ pc = "p_zb_finish"
  /\ p_ezsp_status = Some(0)
  /\ p_adapter_name # None

\* C5: a probe whose EZSP init or Spinel init fails, at any step, goes on to
\* the next protocol: no probe is aborted from within an init sequence.
C5_InitFailureIsClassified == ~(pc = "raised" /\ InProbeInit)

\* C6: probe returns Zigbee only if EZSP init succeeded, Thread only if EZSP
\* init failed and Spinel init succeeded, and with both failed Error if the
\* first line read is empty and Bootloader otherwise; Bootloader and Error
\* carry no board name.
C6_ProbeResult ==
  ProbeReturned =>
    /\ p_ret = probes[Len(probes)]
    /\ p_ret[1] \in {ZIGBEE, THREAD, BOOTLOADER, ERROR}
    /\ p_ret[1] = ZIGBEE => p_ezsp_status = Some(0)
    /\ p_ret[1] = THREAD => p_ezsp_status = Some(-1) /\ p_spinel_status = Some(0)
    /\ p_ret[1] = ERROR =>
         /\ p_ezsp_status = Some(-1)
         /\ p_spinel_status = Some(-1)
         /\ Len(p_first_line) = 0
         /\ p_ret[2] = None
    /\ p_ret[1] = BOOTLOADER =>
         /\ p_ezsp_status = Some(-1)
         /\ p_spinel_status = Some(-1)
         /\ Len(p_first_line) > 0
         /\ p_ret[2] = None

\* a probe returned Bootloader
C6_Witness == ProbeReturned /\ p_ret = <<BOOTLOADER, None>>

\* ------------------------------------------------------------------------
\* restart

\* the device was in the requested mode at restart's first probe
AlreadyInMode(result) ==
  IF r_mode = "btl" THEN result[1] = BOOTLOADER ELSE IsNormal(result[1])

\* C9: restart returns 0 if the device was already in the requested mode or
\* the probe made after the restart command classified it in the requested
\* mode, and returns -1 in every other case.
C9_RestartResult ==
  RestartReturned =>
    LET n == Len(probes) - RBase
        first == probes[RBase + 1]
        last == probes[Len(probes)]
        success == \/ n = 1 /\ AlreadyInMode(first)
                   \/ n = 2 /\ AlreadyInMode(last)
    IN  r_ret = IF success THEN Some(0) ELSE Some(-1)

\* restart's first probe said Thread without a board name, and restart has
\* not probed again
ThreadWithoutName ==
  /\ r_mode = "btl"
  /\ Len(probes) = RBase + 1
  /\ probes[RBase + 1] = <<THREAD, None>>

\* C10: when the probe classifies the device as Thread without a board name,
\* restart to bootloader returns -1 and writes no Spinel packet.
C10_ThreadWithoutNameFails ==
  (RestartReturned /\ ThreadWithoutName) =>
    /\ r_ret = Some(-1)
    /\ ~WrittenKind("SPINEL")

\* restart has returned for such a device
C10_Witness == RestartReturned /\ ThreadWithoutName /\ r_ret = Some(-1)


\* ------------------------------------------------------------------------
\* Byte level: Python's integer operators on non-negative integers

\* a ^ b and a & b for a, b below 2^16, bit by bit
BitXor(a, b) ==
  LET bit(i) == (((a \div 2^i) + (b \div 2^i)) % 2) * 2^i
  IN  bit(0) + (bit(1) + (bit(2) + (bit(3) + (bit(4) + (bit(5) + (bit(6) + (bit(7)
        + (bit(8) + (bit(9) + (bit(10) + (bit(11) + (bit(12) + (bit(13) + (bit(14)
        + bit(15)))))))))))))))

BitAnd(a, b) ==
  LET bit(i) == (((a \div 2^i) % 2) * ((b \div 2^i) % 2)) * 2^i
  IN  bit(0) + (bit(1) + (bit(2) + (bit(3) + (bit(4) + (bit(5) + (bit(6) + (bit(7)
        + (bit(8) + (bit(9) + (bit(10) + (bit(11) + (bit(12) + (bit(13) + (bit(14)
        + bit(15)))))))))))))))

BitOr(a, b) == a + b - BitAnd(a, b)
ShiftLeft(a, n) == a * 2^n
ShiftRight(a, n) == a \div 2^n

\* bytes.replace(old, new): the occurrences of old, found from the left and
\* not overlapping, become new
RECURSIVE replace(_, _, _)
replace(s, old, new) ==
  IF Len(s) < Len(old) THEN s
  ELSE IF SubSeq(s, 1, Len(old)) = old
       THEN new \o replace(SubSeq(s, Len(old) + 1, Len(s)), old, new)
       ELSE <<Head(s)>> \o replace(Tail(s), old, new)

\* binascii.crc_hqx(data, value): CRC-CCITT, polynomial 0x1021, most
\* significant bit first, continued from value; crctab_hqx is its table
crctab_hqx ==
  LET RECURSIVE bits(_, _)
      bits(crc, n) ==
        IF n = 0 THEN crc
        ELSE bits(IF crc >= \H8000
                  THEN BitXor(ShiftLeft(crc, 1) % 65536, \H1021)
                  ELSE ShiftLeft(crc, 1) % 65536, n - 1)
  IN  [b \in 0..255 |-> bits(ShiftLeft(b, 8), 8)]

RECURSIVE crc_hqx(_, _)
crc_hqx(data, value) ==
  IF data = <<>> THEN value
  ELSE LET crc == crc_hqx(SubSeq(data, 1, Len(data) - 1), value)
       IN  BitXor(BitAnd(ShiftLeft(crc, 8), \HFF00),
                  crctab_hqx[BitXor(ShiftRight(crc, 8), data[Len(data)])])

\* ------------------------------------------------------------------------
\* AshProtocolInterface, byte level

FLAG_BYTE == \H7E
RANDOMIZE_START == \H42
RANDOMIZE_SEQ == \HB8
RSTACK_FRAME_CMD == << \H1A, \HC0, \H38, \HBC, \H7E >>
RSTACK_FRAME_ACK == << \H1A, \HC1, \H02, \H0B, \H0A, \H52, \H7E >>

dataRandomize(frame) ==
  LET RECURSIVE randomize(_, _)
      randomize(rest, rand) ==
        IF rest = <<>> THEN <<>>
        ELSE <<BitXor(Head(rest), rand)>>
             \o randomize(Tail(rest),
                          IF rand % 2 = 1
                          THEN BitXor(ShiftRight(rand, 1), RANDOMIZE_SEQ)
                          ELSE ShiftRight(rand, 1))
  IN  randomize(frame, RANDOMIZE_START)

revertEscapedBytes(msg) ==
  LET m1 == replace(msg, << \H7D, \H5D >>, << \H7D >>)
      m2 == replace(m1, << \H7D, \H5E >>, << \H7E >>)
      m3 == replace(m2, << \H7D, \H31 >>, << \H11 >>)
      m4 == replace(m3, << \H7D, \H33 >>, << \H13 >>)
      m5 == replace(m4, << \H7D, \H38 >>, << \H18 >>)
  IN  replace(m5, << \H7D, \H3A >>, << \H1A >>)

replaceReservedBytes_FlagOnly(msg) ==
  replace(msg, << \H7E >>, << \H7D, \H5E >>)

replaceReservedBytes(msg) ==
  LET m1 == replace(msg, << \H7D >>, << \H7D, \H5D >>)
      m2 == replace(m1, << \H7E >>, << \H7D, \H5E >>)
      m3 == replace(m2, << \H11 >>, << \H7D, \H31 >>)
      m4 == replace(m3, << \H13 >>, << \H7D, \H33 >>)
      m5 == replace(m4, << \H18 >>, << \H7D, \H38 >>)
  IN  replace(m5, << \H1A >>, << \H7D, \H3A >>)

\* the frame bytes; the caller advances ackNum and frmNum (EzspAfterSend)
ashFrameBuilder(ezsp_frame, ackNum, frmNum) ==
  LET control == BitAnd(BitOr(BitAnd(ShiftLeft(ackNum, 0), \HFF),
                              BitAnd(ShiftLeft(frmNum % 8, 4), \HFF)), \HFF)
      ash_frame == <<control>> \o dataRandomize(ezsp_frame)
      crc == crc_hqx(ash_frame, \HFFFF)
  IN  replaceReservedBytes(ash_frame \o << ShiftRight(crc, 8), BitAnd(crc, \HFF) >>)
        \o <<FLAG_BYTE>>

AckFrame_CrcFromZero(ackNum) ==
  LET ack == << BitOr(BitAnd(ackNum, \H07), \H80) >>
      crc == crc_hqx(ack, 0)
  IN  replaceReservedBytes(ack \o << ShiftRight(crc, 8), BitAnd(crc, \HFF) >>)
        \o <<FLAG_BYTE>>

\* the frame sendAck(ackNum) writes
AckFrame(ackNum) ==
  LET ack == << BitOr(BitAnd(ackNum, \H07), \H80) >>
      crc == crc_hqx(ack, \HFFFF)
  IN  replaceReservedBytes(ack \o << ShiftRight(crc, 8), BitAnd(crc, \HFF) >>)
        \o <<FLAG_BYTE>>

\* getResponse: (status, msg, msg_parsed), None written as the empty sequence;
\* stream holds the bytes that arrive within the three seconds, and serial.read()
\* delivers them until the flag byte has been read
getResponse(stream, applyRandomize) ==
  LET RECURSIVE ReadUntilFlag(_)
      ReadUntilFlag(rest) ==
        IF rest = <<>> THEN <<>>
        ELSE IF Head(rest) = FLAG_BYTE THEN <<FLAG_BYTE>>
        ELSE <<Head(rest)>> \o ReadUntilFlag(Tail(rest))
      read == ReadUntilFlag(stream)
      msg == revertEscapedBytes(read)
  IN  IF Len(read) = 0
      THEN [status |-> -1, msg |-> <<>>, parsed |-> <<>>]
      ELSE [status |-> 0, msg |-> msg,
            parsed |-> IF applyRandomize
                       THEN dataRandomize(SubSeq(msg, 2, Len(msg) - 3))
                       ELSE <<>>]

\* ------------------------------------------------------------------------
\* EzspProtocolInterface, byte level

ezspFrameBuilder_Legacy(command, sequenceNum, ezspVersion) ==
  <<sequenceNum, \H00>> \o command

ezspFrameBuilder_IdInPlace(command, sequenceNum, ezspVersion) ==
  LET built == <<sequenceNum, \H00>>
               \o (IF ezspVersion >= 5 THEN << \HFF, \H00 >> ELSE <<>>)
               \o command
  IN  IF ezspVersion >= 8 THEN [built EXCEPT ![3] = \H01] ELSE built

\* the frame bytes; the caller advances sequenceNum (EzspAfterSend)
ezspFrameBuilder(command, sequenceNum, ezspVersion) ==
  LET built == <<sequenceNum, \H00>>
               \o (IF ezspVersion >= 5 THEN << \HFF, \H00 >> ELSE <<>>)
               \o command
  IN  IF ezspVersion >= 8
      THEN [built EXCEPT ![3] = \H01,
                         ![4] = BitAnd(command[1], \HFF),
                         ![5] = ShiftRight(command[1], 8)]
      ELSE built

\* the commands the interface builds: VERSION (sendVersion), GET_VALUE
\* (getValue), GET_MFG_TOKEN (getMfgToken), LAUNCH_STANDALONE_BOOTLOADER
EzspCommands ==
  { << \H00, INITIAL_EZSP_VERSION >>, << \HAA, \H11 >>,
    << \H0B, \H01 >>, << \H8F, \H01 >> }

\* ------------------------------------------------------------------------
\* The NCP's side of the line: a DATA frame with its control byte, its
\* randomised EZSP payload and its CRC, every reserved byte escaped

NcpFrame(control, payload, crcGood, flagged) ==
  LET RECURSIVE Stuff(_)
      Stuff(rest) ==
        IF rest = <<>> THEN <<>>
        ELSE (IF Head(rest) \in { \H7D, \H7E, \H11, \H13, \H18, \H1A }
              THEN << \H7D, BitXor(Head(rest), \H20) >>
              ELSE <<Head(rest)>>) \o Stuff(Tail(rest))
      frame == <<control>> \o dataRandomize(payload)
      crc == crc_hqx(frame, \HFFFF)
      sent == IF crcGood THEN crc ELSE BitXor(crc, 1)
  IN  Stuff(frame \o << ShiftRight(sent, 8), BitAnd(sent, \HFF) >>)
        \o (IF flagged THEN <<FLAG_BYTE>> ELSE <<>>)

\* DATA frames the NCP may send: the control byte (frmNum, the retransmission
\* bit, ackNum) and the EZSP response (sequence, frame control, frame id, one
\* parameter)
RxData ==
  { << \H01, << \H00, \H80, \H00, \H04 >> >>,
    << \H20, << \H00, \H80, \H00, \H08 >> >>,
    << \H31, << \H00, \H80, \H00, \H07 >> >>,
    << \H7D, << \H1C, \H80, \H00, \H08 >> >> }

\* the bytes that may arrive while getResponse reads
RxStreams ==
  { <<>>, RSTACK_FRAME_ACK }
    \cup { NcpFrame(d[1], d[2], TRUE, TRUE) : d \in RxData }
    \cup { NcpFrame(\H01, << \H00, \H80, \H00, \H04 >>, g, f) :
             g \in BOOLEAN, f \in BOOLEAN }

\* ------------------------------------------------------------------------
\* One EZSP session over ASH, byte by byte: the interface is constructed, the
\* reset frame opens the session, and the caller sends commands

MaxCommands == 256

DataBuilt == Cardinality({ i \in DOMAIN s_log : s_log[i] = "DATA" })

UtilityOff ==
  /\ args = CHOOSE a \in ArgSets : TRUE
  /\ pc = "off"
  /\ stack = <<>>
  /\ exc = "-"
  /\ nOpen = 0
  /\ opened = 0
  /\ baud = BaudDefault
  /\ wire = <<>>
  /\ spinel = NewSpinel
  /\ i_ret = 0
  /\ p_ezsp_status = None
  /\ p_spinel_status = None
  /\ p_firmware_bound = FALSE
  /\ p_adapter_name = None
  /\ p_first_line = <<>>
  /\ p_ret = <<ERROR, None>>
  /\ probes = <<>>
  /\ r_mode = "-"
  /\ r_adapter = <<ERROR, None>>
  /\ r_ret = None
  /\ f_filename = <<>>
  /\ f_success = FALSE
  /\ f_elapsed = 0
  /\ f_sentcheck = None

offVars ==
  << args, pc, exc, nOpen, opened, baud, wire, spinel,
     p_ezsp_status, p_spinel_status, p_firmware_bound, p_adapter_name,
     p_first_line, p_ret, probes, r_mode, r_adapter, r_ret,
     f_filename, f_success, f_elapsed, f_sentcheck >>

AshInit ==
  /\ UtilityOff
  /\ ezsp = NewEzsp
  /\ s_pc = "init"
  /\ s_tx = <<>>
  /\ s_raw = <<>>
  /\ s_resp = NoResponse
  /\ s_log = <<>>
  /\ calc = NoCalc

\* sendResetFrame, byte level: the status
resetStatus(stream) ==
  LET r == getResponse(stream, FALSE)
  IN  IF r.status # 0 THEN r.status
      ELSE IF ~Contains(RSTACK_FRAME_ACK, r.msg) THEN -1
      ELSE 0

\* initEzspProtocol to its first test: the reset frame is written and the
\* reply read; a status is returned to the caller at once
AshSendResetFrame ==
  /\ s_pc = "init"
  /\ s_tx' = RSTACK_FRAME_CMD
  /\ s_log' = Append(s_log, "RST")
  /\ \E stream \in RxStreams :
       /\ s_raw' = stream
       /\ s_resp' = getResponse(stream, FALSE)
       /\ i_ret' = resetStatus(stream)
       /\ s_pc' = IF resetStatus(stream) # 0 THEN "idle" ELSE "init_v4"
  /\ UNCHANGED << offVars, stack, ezsp, calc >>

\* sendEzspCommand to the write of sendAshCommand: the command is built into
\* an EZSP frame, that into a DATA frame, and the DATA frame is written
DataWritten(command) ==
  /\ DataBuilt < MaxCommands
  /\ s_tx' = ashFrameBuilder(
               ezspFrameBuilder(command, ezsp.sequenceNum, ezsp.ezspVersion),
               ezsp.ackNum, ezsp.frmNum)
  /\ ezsp' = EzspAfterSend(ezsp)
  /\ s_log' = Append(s_log, "DATA")
  /\ s_raw' = <<>>
  /\ s_resp' = NoResponse
  /\ s_pc' = "sent"

\* initEzspProtocol: sendVersion(INITIAL_EZSP_VERSION)
InitSendVersion ==
  /\ s_pc = "init_v4"
  /\ DataWritten(<< \H00, INITIAL_EZSP_VERSION >>)
  /\ stack' = << "init_v4_ret" >>
  /\ UNCHANGED << offVars, i_ret, calc >>

\* initEzspProtocol: sendVersion(self.ezspVersion), after the assignment
InitSendVersionAgain ==
  /\ s_pc = "init_v2"
  /\ DataWritten(<< \H00, ezsp.ezspVersion >>)
  /\ stack' = << "init_v2_ret" >>
  /\ UNCHANGED << offVars, i_ret, calc >>

\* a command of the caller, after initEzspProtocol has returned
SendAshCommand ==
  /\ s_pc = "idle"
  /\ \E command \in EzspCommands : DataWritten(command)
  /\ UNCHANGED << offVars, stack, i_ret, calc >>

\* sendAshCommand: getResponse(True); a status makes sendEzspCommand raise
AshGetResponse ==
  /\ s_pc = "sent"
  /\ \E stream \in RxStreams :
       /\ s_raw' = stream
       /\ s_resp' = getResponse(stream, TRUE)
       /\ IF getResponse(stream, TRUE).status # 0
          THEN s_pc' = "raised" /\ s_log' = s_log
          ELSE s_pc' = "ack" /\ s_log' = Append(s_log, "RESP")
  /\ UNCHANGED << offVars, stack, ezsp, i_ret, s_tx, calc >>

\* sendAshCommand: sendAck(ash_response[0]), and the response is returned to
\* the caller of sendEzspCommand
AshSendAck ==
  /\ s_pc = "ack"
  /\ s_tx' = AckFrame(s_resp.msg[1])
  /\ s_log' = Append(s_log, "ACK")
  /\ s_pc' = IF stack = <<>> THEN "idle" ELSE Head(stack)
  /\ stack' = IF stack = <<>> THEN <<>> ELSE Tail(stack)
  /\ UNCHANGED << offVars, ezsp, i_ret, s_raw, s_resp, calc >>

\* sendVersion returns resp[3], and initEzspProtocol assigns it to ezspVersion;
\* a response of fewer than four bytes has no resp[3]
InitAdoptVersion ==
  /\ s_pc = "init_v4_ret"
  /\ IF Len(s_resp.parsed) < 4
     THEN s_pc' = "raised" /\ ezsp' = ezsp
     ELSE /\ ezsp' = [ezsp EXCEPT !.ezspVersion = s_resp.parsed[4]]
          /\ s_pc' = IF s_resp.parsed[4] # INITIAL_EZSP_VERSION
                     THEN "init_v2" ELSE "idle"
  /\ UNCHANGED << offVars, stack, i_ret, s_tx, s_raw, s_resp, s_log, calc >>

\* the second sendVersion returns: its value is dropped, and initEzspProtocol
\* returns 0
InitVersionConfirmed ==
  /\ s_pc = "init_v2_ret"
  /\ s_pc' = IF Len(s_resp.parsed) < 4 THEN "raised" ELSE "idle"
  /\ UNCHANGED << offVars, stack, ezsp, i_ret, s_tx, s_raw, s_resp, s_log, calc >>

AshNext ==
  \/ AshSendResetFrame
  \/ InitSendVersion
  \/ InitSendVersionAgain
  \/ InitAdoptVersion
  \/ InitVersionConfirmed
  \/ SendAshCommand
  \/ AshGetResponse
  \/ AshSendAck

SpecAsh == AshInit /\ [][AshNext]_vars

\* ------------------------------------------------------------------------
\* Properties of the ASH session

\* ASH byte stuffing undone as the protocol defines it: the byte after an
\* escape byte, with bit 5 flipped
RECURSIVE AshUnstuffed(_)
AshUnstuffed(stream) ==
  IF stream = <<>> THEN <<>>
  ELSE IF Head(stream) = \H7D /\ Len(stream) >= 2
       THEN <<BitXor(stream[2], \H20)>> \o AshUnstuffed(SubSeq(stream, 3, Len(stream)))
       ELSE <<Head(stream)>> \o AshUnstuffed(Tail(stream))

\* the control byte of the frame that was received
ReceivedControl == AshUnstuffed(s_raw)[1]

LastFrame == IF s_log = <<>> THEN "-" ELSE s_log[Len(s_log)]

\* every DATA frame but the last is followed by its response, every response
\* but the last by its ACK
PairedFrames ==
  \A i \in 1..(Len(s_log) - 1) :
    /\ s_log[i] = "DATA" => s_log[i + 1] = "RESP"
    /\ s_log[i] = "RESP" => s_log[i + 1] = "ACK"

\* C11: every response received for a DATA frame is followed by an ACK frame
\* whose low three bits are those of the received control byte, written before
\* the next DATA frame; no two DATA frames without a response and its ACK in
\* between.
C11_ResponseIsAcked ==
  /\ PairedFrames
  /\ (s_pc = "idle" /\ LastFrame = "ACK") =>
       /\ s_tx[1] >= \H80
       /\ s_tx[1] % 8 = ReceivedControl % 8

\* C12: in every state of an ASH session ackNum = frmNum = the number of DATA
\* frames built since the session was opened, modulo 8; writing an ACK frame
\* or the reset frame changes neither counter.
C12_AshCounters ==
  /\ [](ezsp.ackNum = ezsp.frmNum /\ ezsp.ackNum = DataBuilt % 8)
  /\ [][(s_log' # s_log /\ s_log'[Len(s_log')] \in {"ACK", "RST"})
          => (ezsp'.ackNum = ezsp.ackNum /\ ezsp'.frmNum = ezsp.frmNum)]_vars

\* eight DATA frames have been built and the last response acknowledged
C12_Witness ==
  DataBuilt = 8 /\ LastFrame = "ACK" /\ ezsp.ackNum = 0 /\ ezsp.frmNum = 0

\* the EZSP sequence byte of the DATA frame written last
SentSequence == BitXor(AshUnstuffed(s_tx)[2], \H42)

\* C13: the EZSP sequence byte starts at 0, is placed in the frame before it is
\* increased by one per command built, and wraps modulo 255: it is 0 again
\* after 255 commands and never 255.
C13_SequenceWraps ==
  /\ ezsp.sequenceNum = DataBuilt % 255
  /\ ezsp.sequenceNum # 255
  /\ s_pc = "sent" => SentSequence = (DataBuilt - 1) % 255

\* the 256th command of a session carries the sequence byte 0
C13_Witness ==
  DataBuilt = 256 /\ s_pc = "sent" /\ SentSequence = 0 /\ ezsp.sequenceNum = 1

\* getResponse has just returned to sendAshCommand
ResponseRead == s_pc \in {"ack", "raised"}

HasFlag(stream) == \E i \in DOMAIN stream : stream[i] = \H7E

\* the CRC that ends the frame is the CRC-CCITT of the bytes before it (a
\* leading cancel byte 0x1A is no part of the frame)
CrcMatches(stream) ==
  LET first == IF stream[1] = \H1A THEN 2 ELSE 1
      frame == AshUnstuffed(SubSeq(stream, first, Len(stream) - 1))
      n == Len(frame)
  IN  /\ n >= 3
      /\ crc_hqx(SubSeq(frame, 1, n - 2), \HFFFF) = frame[n - 1] * 256 + frame[n]

\* C16: a received ASH frame whose CRC does not match its contents is reported
\* as an error: it is neither acknowledged nor returned as a successful
\* response.
C16_CrcErrorReported ==
  (DataBuilt > 0 /\ s_pc \in {"ack", "idle", "raised"}
     /\ HasFlag(s_raw) /\ ~CrcMatches(s_raw))
    => (s_resp.status # 0 /\ LastFrame # "ACK")

\* C17: ASH receive reports a timeout whenever no flag byte arrives within the
\* three seconds, also when some bytes but no flag were received.
C17_NoFlagIsTimeout ==
  (ResponseRead /\ ~HasFlag(s_raw)) => s_resp.status # 0

\* C20 as stated: the ACK for ackNum = 0 carries the CRC 0x2672 of its control
\* byte 0x80.
C20_AckCrcIs2672 ==
  (LastFrame = "ACK" /\ s_tx[1] = \H80) => s_tx = << \H80, \H26, \H72, \H7E >>

\* C20: the CRC-CCITT (polynomial 0x1021, init 0xFFFF) that sendAck computes
\* over the single byte 0x80, the ACK control byte for ackNum = 0, is 0x7078.
C20_AckCrcIs7078 ==
  (LastFrame = "ACK" /\ s_tx[1] = \H80) => s_tx = << \H80, \H70, \H78, \H7E >>

\* a response with ackNum 0 in its control byte has been acknowledged
C20_Witness ==
  LastFrame = "ACK" /\ s_tx[1] = \H80 /\ ReceivedControl % 8 = 0

\* ------------------------------------------------------------------------
\* Properties of initSpinelProtocol

\* the PROP_PROTOCOL_VERSION requests written in the session
VersionRequests ==
  Cardinality({ i \in DOMAIN wire : wire[i] = SpinelPkt("PROP_PROTOCOL_VERSION") })

\* C14: Spinel init sends the PROP_PROTOCOL_VERSION request at most 5 times: it
\* succeeds and records the version on the first matching reply, returns
\* failure after the fifth mismatching reply, and always terminates (a round
\* that stays in the loop has increased the counter, which stays below 5).
C14_VersionLoopBounded ==
  /\ [](VersionRequests <= 5)
  /\ [](pc = "spinel_init_ver" =>
          /\ spinel.counter < 5
          /\ VersionRequests = spinel.counter
          /\ spinel.spinelVersion = None)
  /\ [][pc = "spinel_init_ver" =>
          \/ /\ pc' = "spinel_init_ver"
             /\ spinel'.counter = spinel.counter + 1
          \/ /\ pc' = "raised"
          \/ /\ pc' \notin {"spinel_init_ver", "raised"}
             /\ i_ret' = 0
             /\ spinel'.spinelVersion # None
             /\ spinel'.counter = spinel.counter
          \/ /\ pc' \notin {"spinel_init_ver", "raised"}
             /\ i_ret' = -1
             /\ spinel'.spinelVersion = None
             /\ spinel'.counter = 5]_vars

\* the fifth mismatching reply has made initSpinelProtocol return -1
C14_Witness ==
  /\ VersionRequests = 5
  /\ spinel.counter = 5
  /\ i_ret = -1
  /\ pc \notin {"spinel_init_ver", "raised"}

\* ------------------------------------------------------------------------
\* HdlcLiteProtocolInterface, byte level

HDLC_FLAG == \H7E
HDLC_ESCAPE == \H7D
HDLC_FCS_INIT == \HFFFF
HDLC_FCS_POLY == \H8408
HDLC_FCS_GOOD == \HF0B8

\* mkfcstab
fcstab ==
  LET RECURSIVE valiter(_, _)
      valiter(fcs, i) ==
        IF i = 0 THEN BitAnd(fcs, \HFFFF)
        ELSE valiter(IF BitAnd(fcs, 1) # 0
                     THEN BitXor(ShiftRight(fcs, 1), HDLC_FCS_POLY)
                     ELSE ShiftRight(fcs, 1), i - 1)
  IN  [byte \in 0..255 |-> valiter(byte, 8)]

fcs16(byte, fcs) == BitXor(ShiftRight(fcs, 8), fcstab[BitAnd(BitXor(fcs, byte), \HFF)])

encode_byte_Plain(byte) == <<byte>>

\* the bytes encode_byte appends to the packet
encode_byte(byte) ==
  IF byte = HDLC_ESCAPE \/ byte = HDLC_FLAG
  THEN <<HDLC_ESCAPE, BitXor(byte, \H20)>>
  ELSE <<byte>>

encode(payload) ==
  LET RECURSIVE each(_, _)
      \* the packet after the payload bytes from position i on, and the FCS
      each(i, fcs) ==
        IF i > Len(payload)
        THEN LET sent == BitXor(fcs, \HFFFF)
             IN  encode_byte(BitAnd(sent, \HFF)) \o encode_byte(ShiftRight(sent, 8))
                   \o <<HDLC_FLAG>>
        ELSE encode_byte(payload[i]) \o each(i + 1, fcs16(payload[i], fcs))
  IN  <<HDLC_FLAG>> \o each(1, HDLC_FCS_INIT)

\* getResponse: (status, packet), None written as the empty sequence; stream
\* holds the bytes that arrive within the three seconds, a read after them
\* times out, delivers no byte, which counts as 0, and ends the loop
HdlcGetResponse(stream) ==
  LET RECURSIVE loop(_, _, _)
      loop(rest, packet, fcs) ==
        LET byte == IF rest = <<>> THEN 0 ELSE Head(rest)
            escaped == IF Len(rest) < 2 THEN 0 ELSE rest[2]
            value == IF byte = HDLC_ESCAPE THEN BitXor(escaped, \H20) ELSE byte
            after == IF byte = HDLC_ESCAPE THEN SubSeq(rest, 3, Len(rest))
                     ELSE SubSeq(rest, 2, Len(rest))
            done == [packet |-> Append(packet, value), fcs |-> fcs16(value, fcs)]
        IN  IF byte = HDLC_FLAG /\ Len(packet) = 0 THEN loop(Tail(rest), packet, fcs)
            ELSE IF byte = HDLC_FLAG THEN [packet |-> packet, fcs |-> fcs]
            ELSE IF rest = <<>> \/ (byte = HDLC_ESCAPE /\ Len(rest) < 2) THEN done
            ELSE loop(after, done.packet, done.fcs)
      read == loop(stream, <<>>, HDLC_FCS_INIT)
  IN  IF Len(read.packet) = 0 THEN [status |-> -1, packet |-> <<>>]
      ELSE IF read.fcs # HDLC_FCS_GOOD THEN [status |-> -1, packet |-> <<>>]
      ELSE [status |-> 0, packet |-> SubSeq(read.packet, 1, Len(read.packet) - 2)]

\* ------------------------------------------------------------------------
\* SpinelProtocolInterface, byte level

\* encode_i: data & 0x7F is data % 128, data >> 7 is data \div 128, value | 0x80
\* is value + 128
RECURSIVE encode_i(_)
encode_i(data) ==
  IF data = 0 THEN <<>>
  ELSE LET value == data % 128
           more == data \div 128
       IN  <<IF more # 0 THEN value + 128 ELSE value>> \o encode_i(more)

\* propValueGet after sendSpinelCommand has returned resp: what it returns,
\* None written as the empty sequence when it raises
propValueGet(prop_id, resp) ==
  IF prop_id > \HFFFF THEN [raised |-> TRUE, value |-> <<>>]
  ELSE IF prop_id > \HFF
       THEN [raised |-> FALSE, value |-> SubSeq(resp, 5, Len(resp))]
       ELSE [raised |-> FALSE, value |-> SubSeq(resp, 4, Len(resp))]

\* ------------------------------------------------------------------------
\* The codecs applied to inputs: stuffing and its reversal, HDLC-Lite encoding
\* fed back to the receiver, and the Spinel varint

MaxLen == 2
MaxVarint == 300

ByteStrings(alphabet) == UNION { [1..n -> alphabet] : n \in 0..MaxLen }

\* the reserved bytes, the second bytes of their escape pairs, and two others
StuffBytes == { \H00, \H11, \H13, \H18, \H1A, \H31, \H5D, \H5E, \H7D, \H7E }

\* flag and escape, their escaped forms, bytes whose FCS holds a flag or an
\* escape byte (0x19, 0x2A, 0x60; 0x08 before 0x7E), and one other
HdlcBytes == { \H00, \H08, \H19, \H2A, \H5D, \H5E, \H60, \H7D, \H7E }

\* small numbers, the Spinel ids the utility encodes, and the ends of the
\* ranges that take one to five bytes
VarintInputs ==
  (0..MaxVarint)
    \cup { 15360, 15361, 16383, 16384, 2097151, 2097152, 268435455, 268435456,
           2147483647 }

\* commands of a one-byte ID and up to MaxLen argument bytes, sequence bytes
\* from both ends of the range, and the versions around the two thresholds
MaxVersion == 9
FrameCommands ==
  { <<c>> \o a : c \in { \H00, \H0B, \HAA, \HFF },
                 a \in ByteStrings({ \H00, \H01, \HFF }) }
FrameSequences == { 0, 1, 127, 254 }
FrameVersions == 3..MaxVersion

\* property ids: the small ones, the ids the utility reads, and the ends of
\* the ranges of propValueGet and of the varint lengths
PropIds ==
  (1..MaxVarint) \cup { 15360, 15361, 15362, 16383, 16384, 65535, 65536 }

\* the reply to CMD_PROP_VALUE_GET: the header, the command id of the reply
\* (one byte), the property id echoed as a varint, and the value
PropReply(prop_id, value) == << \H81, \H06 >> \o encode_i(prop_id) \o value

CodecInit ==
  /\ UtilityOff
  /\ ezsp = NewEzsp
  /\ ByteLevelIdle

AshStuffing ==
  /\ calc.op = "none"
  /\ \E x \in ByteStrings(StuffBytes) :
       calc' = [op |-> "stuffing", bytes |-> x, num |-> 0,
                coded |-> replaceReservedBytes(x), status |-> 0,
                back |-> revertEscapedBytes(replaceReservedBytes(x))]
  /\ UNCHANGED << offVars, stack, ezsp, i_ret, s_pc, s_tx, s_raw, s_resp, s_log >>

HdlcLoopback ==
  /\ calc.op = "none"
  /\ \E x \in ByteStrings(HdlcBytes) :
       calc' = [op |-> "hdlc", bytes |-> x, num |-> 0,
                coded |-> encode(x),
                status |-> HdlcGetResponse(encode(x)).status,
                back |-> HdlcGetResponse(encode(x)).packet]
  /\ UNCHANGED << offVars, stack, ezsp, i_ret, s_pc, s_tx, s_raw, s_resp, s_log >>

SpinelEncodeI ==
  /\ calc.op = "none"
  /\ \E n \in VarintInputs :
       calc' = [op |-> "encode_i", bytes |-> <<>>, num |-> n,
                coded |-> encode_i(n), status |-> 0, back |-> <<>>]
  /\ UNCHANGED << offVars, stack, ezsp, i_ret, s_pc, s_tx, s_raw, s_resp, s_log >>

EzspFrameBuild ==
  /\ calc.op = "none"
  /\ \E command \in FrameCommands, sequenceNum \in FrameSequences,
        ezspVersion \in FrameVersions :
       calc' = [op |-> "ezsp_frame", command |-> command,
                sequenceNum |-> sequenceNum, ezspVersion |-> ezspVersion,
                coded |-> ezspFrameBuilder(command, sequenceNum, ezspVersion)]
  /\ UNCHANGED << offVars, stack, ezsp, i_ret, s_pc, s_tx, s_raw, s_resp, s_log >>

SpinelPropValueGet ==
  /\ calc.op = "none"
  /\ \E prop_id \in PropIds, value \in { << \H04 >>, << \H45, \H4C, \H00 >> } :
       calc' = [op |-> "propValueGet", num |-> prop_id, bytes |-> value,
                coded |-> PropReply(prop_id, value),
                status |-> IF propValueGet(prop_id, PropReply(prop_id, value)).raised
                           THEN 1 ELSE 0,
                back |-> propValueGet(prop_id, PropReply(prop_id, value)).value]
  /\ UNCHANGED << offVars, stack, ezsp, i_ret, s_pc, s_tx, s_raw, s_resp, s_log >>

CodecNext ==
  \/ EzspFrameBuild
  \/ SpinelPropValueGet
  \/ AshStuffing
  \/ HdlcLoopback
  \/ SpinelEncodeI

SpecCodec == CodecInit /\ [][CodecNext]_vars

\* ------------------------------------------------------------------------
\* Properties of the codecs

\* C15: ASH byte stuffing round-trips: revertEscapedBytes(replaceReservedBytes(x))
\* is x for every byte string x.
C15_StuffingRoundTrips ==
  calc.op = "stuffing" => calc.back = calc.bytes

\* C18: HDLC-Lite round-trips: the receiver, fed the bytes of encode(x), reports
\* success (the FCS over the un-escaped bytes is the good residual 0xF0B8, the
\* only case in which it does) with the payload x, also for payloads that
\* hold 0x7D or 0x7E and for payloads whose FCS bytes are escaped.
C18_HdlcRoundTrips ==
  calc.op = "hdlc" => (calc.status = 0 /\ calc.back = calc.bytes)

Escapes(bytes) == Cardinality({ i \in DOMAIN bytes : bytes[i] \in { \H7D, \H7E } })

\* a payload with a flag or escape byte, whose FCS needed escaping too, has
\* come back
C18_Witness ==
  /\ calc.op = "hdlc"
  /\ calc.status = 0
  /\ calc.back = calc.bytes
  /\ Escapes(calc.bytes) > 0
  /\ Len(calc.coded) > Len(calc.bytes) + Escapes(calc.bytes) + 4

\* the number an unsigned LEB128 byte sequence stands for
RECURSIVE Leb128(_)
Leb128(bytes) ==
  IF bytes = <<>> THEN 0 ELSE (Head(bytes) % 128) + 128 * Leb128(Tail(bytes))

\* C19: encode_i produces the unsigned LEB128 encoding of every n: a non-empty
\* byte sequence with the continuation bit 0x80 set on all bytes but the last,
\* from which LEB128 decoding returns n; 15360 encodes as 0x80 0x78.
C19_EncodeIsLeb128 ==
  calc.op = "encode_i" =>
    /\ Len(calc.coded) >= 1
    /\ \A i \in 1..(Len(calc.coded) - 1) : calc.coded[i] >= \H80
    /\ calc.coded[Len(calc.coded)] < \H80
    /\ Leb128(calc.coded) = calc.num
    /\ calc.num = 15360 => calc.coded = << \H80, \H78 >>

\* ------------------------------------------------------------------------
\* Properties of restart, probe and flash at the level of frames

\* C21: in restart to bootloader from Zigbee mode the launchStandaloneBootloader
\* DATA frame is written only after the EZSP init of that session has
\* succeeded: the reset frame first, then a version command that was answered.
C21_LaunchAfterInit ==
  \A j \in 1..Len(wire) :
    wire[j] = AshData("launchStandaloneBootloader") =>
      /\ wire[1] = AshRst
      /\ \E i \in 2..(j - 2) : wire[i] = AshData("version") /\ wire[i + 1] = AshAck

\* the EZSP frame inside the DATA frame written last: the stuffing undone, the
\* control byte, the CRC and the flag taken off, the randomisation undone
EzspFrameOf(tx) ==
  LET u == AshUnstuffed(tx)
  IN  dataRandomize(SubSeq(u, 2, Len(u) - 3))

\* the header layouts of the EZSP versions, for a command of one ID byte and
\* one argument byte
HeaderLayout(frame, version) ==
  /\ frame[2] = \H00
  /\ IF version <= 4 THEN Len(frame) = 4
     ELSE IF version <= 7
          THEN Len(frame) = 6 /\ frame[3] = \HFF /\ frame[4] = \H00
          ELSE Len(frame) = 6 /\ frame[3] = \H01 /\ frame[5] = \H00

\* the version in the response on the line, decoded as the protocol defines it
ReportedVersion == dataRandomize(Tail(AshUnstuffed(s_raw)))[4]

InInit == s_pc \in {"init", "init_v4", "init_v2", "init_v4_ret", "init_v2_ret"}
            \/ stack # <<>>

\* C22: initEzspProtocol writes no DATA frame when the reset is not
\* acknowledged; otherwise its first DATA frame is version(4) in the version-4
\* layout, it records the version the device reports, it sends exactly one
\* further version command if and only if that version is not 4, and every
\* frame after that has the header layout of the recorded version.
C22_InitAdoptsVersion ==
  /\ [][s_pc = "init" =>
          IF s_raw' = RSTACK_FRAME_ACK
          THEN s_pc' = "init_v4"
          ELSE s_pc' = "idle" /\ DataBuilt' = 0 /\ i_ret' # 0]_vars
  /\ []((DataBuilt = 1 /\ LastFrame = "DATA" /\ i_ret = 0) =>
          EzspFrameOf(s_tx) = << \H00, \H00, \H00, \H04 >>)
  /\ [][(s_pc = "init_v4_ret" /\ s_pc' # "raised") =>
          ezsp'.ezspVersion = ReportedVersion]_vars
  /\ [][(InInit /\ s_pc' = "idle" /\ i_ret' = 0) =>
          DataBuilt' = (IF ezsp'.ezspVersion = 4 THEN 1 ELSE 2)]_vars
  /\ []((DataBuilt = 2 /\ LastFrame = "DATA" /\ InInit) =>
          /\ ezsp.ezspVersion # 4
          /\ LET frame == EzspFrameOf(s_tx)
             IN  SubSeq(frame, Len(frame) - 1, Len(frame))
                   = << \H00, ezsp.ezspVersion >>)
  /\ []((DataBuilt >= 2 /\ LastFrame = "DATA" /\ i_ret = 0) =>
          HeaderLayout(EzspFrameOf(s_tx), ezsp.ezspVersion))
  /\ [][~InInit => ezsp'.ezspVersion = ezsp.ezspVersion]_vars

\* the device reported version 8, the version command was sent again, and a
\* command of the caller went out in the version-8 layout
C22_Witness ==
  /\ DataBuilt = 3
  /\ s_pc = "sent"
  /\ ezsp.ezspVersion = 8
  /\ EzspFrameOf(s_tx) = << \H02, \H00, \H01, \HAA, \H00, \H11 >>

\* C23: for a command of one-byte ID c and arguments a, built at sequence byte
\* s, ezspFrameBuilder gives [s, 0x00, c, a...] up to version 4,
\* [s, 0x00, 0xFF, 0x00, c, a...] for versions 5 to 7 and
\* [s, 0x00, 0x01, c, 0x00, a...] from version 8 on, the arguments unchanged
\* after the header.
C23_FrameLayouts ==
  calc.op = "ezsp_frame" =>
    LET c == calc.command[1]
        a == Tail(calc.command)
        s == calc.sequenceNum
    IN  calc.coded =
          IF calc.ezspVersion <= 4 THEN << s, \H00, c >> \o a
          ELSE IF calc.ezspVersion <= 7 THEN << s, \H00, \HFF, \H00, c >> \o a
          ELSE << s, \H00, \H01, c, \H00 >> \o a

\* a version-8 frame of a command with two argument bytes
C23_Witness ==
  /\ calc.op = "ezsp_frame"
  /\ calc.ezspVersion = 8
  /\ calc.command = << \HAA, \H01, \HFF >>
  /\ calc.coded = << 254, \H00, \H01, \HAA, \H00, \H01, \HFF >>

\* C24: for every property id p from 1 to 0xFFFF propValueGet strips 2 bytes
\* plus the bytes of the varint encoding of p from the reply, so that what it
\* returns starts right after the echoed property id: it returns the value.
C24_StripMatchesVarint ==
  (calc.op = "propValueGet" /\ calc.num \in 1..65535) =>
    /\ calc.status = 0
    /\ Len(calc.coded) - Len(calc.back) = 2 + Len(encode_i(calc.num))
    /\ calc.back = calc.bytes

\* the session flash opened has written the transfer or the reboot byte
TransferStarted ==
  /\ args.which \in {"flash", "ele_update"}
  /\ Written(Btl("XMODEM")) \/ Written(Btl("2"))

\* the transfer is started only after a 'C' was read and more than five
\* seconds of the wait have passed; without a 'C' flash returns at once, and
\* writes nothing
TransferNeedsReady ==
  /\ [](TransferStarted => (f_success /\ f_elapsed > READY_SETTLE))
  /\ [][(pc = "f_wait_done" /\ ~f_success) =>
          (pc' = Head(stack) /\ stack' = Tail(stack) /\ wire' = wire)]_vars

EscapedForms == { \H5D, \H5E, \H31, \H33, \H38, \H3A }

\* the frame ends with the flag and holds no other flag and no XON, XOFF,
\* substitute or cancel byte, and every 0x7D in it starts an escape pair
WellStuffed(frame) ==
  /\ frame # <<>>
  /\ frame[Len(frame)] = \H7E
  /\ \A i \in 1..(Len(frame) - 1) :
       /\ frame[i] \notin { \H7E, \H11, \H13, \H18, \H1A }
       /\ frame[i] = \H7D => frame[i + 1] \in EscapedForms

\* C26: every DATA frame and every ACK frame the framer writes ends with the
\* flag 0x7E, holds no other 0x7E and no 0x11, 0x13, 0x18 or 0x1A, and holds
\* 0x7D only as the first byte of an escape pair of the escape table.
C26_WrittenFramesAreStuffed ==
  LastFrame \in {"DATA", "ACK"} => WellStuffed(s_tx)

\* a DATA frame that holds an escape pair has been written
C26_Witness ==
  /\ LastFrame = "DATA"
  /\ \E i \in 1..(Len(s_tx) - 1) : s_tx[i] = \H7D /\ s_tx[i + 1] \in EscapedForms
  /\ WellStuffed(s_tx)

\* C27: when EZSP init has succeeded and getValue(EZSP_VALUE_VERSION_INFO) is
\* answered with a status that is not zero, probe still returns Zigbee, with
\* the board name the manufacturer tokens gave, and closes the serial session.
C27_ProbeSurvivesGetValueStatus ==
  [][(pc = "p_zb_finish" /\ ~p_firmware_bound) =>
       /\ pc' = Head(stack)
       /\ p_ret' = <<ZIGBEE, p_adapter_name>>
       /\ nOpen' = 0]_vars

====
